---- MODULE Spec2Model ----
(***************************************************************************)
(* fpaq0f2: adaptive order-0 arithmetic coder (StateMap, Predictor,        *)
(* Encoder, fpaq0f2_compress, fpaq0f2_decompress).                         *)
(*                                                                         *)
(* A U32 of the source is held as a pair <<hi, lo>> of its two 16-bit      *)
(* halves, value hi * 65536 + lo, because the model checker's integers are *)
(* narrower than 32 unsigned bits.  Every U32 operation below is the       *)
(* operation of the source modulo 2^32, carried out on the halves.         *)
(***************************************************************************)
EXTENDS Integers, Sequences, FiniteSets, TLC

\* ------------------------------------------------------------------ bounds
MaxLen == 3
MaxCap == 4
MaxDecLen == 4
MaxDecCap == 2
MaxPrefix == 2
MaxUpdates == 900
RaceLen == 1

\* ------------------------------------------------------- 32-bit arithmetic
W16 == 65536

Byte == 0 .. 255

Hi(a) == a[1]

Lo(a) == a[2]

Le32(a, b) == a[1] < b[1] \/ (a[1] = b[1] /\ a[2] <= b[2])

Lt32(a, b) == a[1] < b[1] \/ (a[1] = b[1] /\ a[2] < b[2])

\* a + b as the mathematical sum, in units of the two halves (not reduced)
AddWide(a, b) == <<a[1] + b[1] + ((a[2] + b[2]) \div W16), (a[2] + b[2]) % W16>>

\* a + b in U32
Add32(a, b) == <<AddWide(a, b)[1] % W16, AddWide(a, b)[2]>>

\* a - b in U32
Sub32(a, b) ==
  LET lo == a[2] - b[2]
      hi == a[1] - b[1] + (lo \div W16)
  IN  <<hi % W16, lo % W16>>

\* a * b for two 16-bit operands, as a U32 (it never exceeds 2^32 - 1)
Mul16(a, b) ==
  LET A == a * (b \div 256)
      B == a * (b % 256)
      S == A + (B \div 256)
  IN  <<S \div 256, (S % 256) * 256 + (B % 256)>>

\* x >> 24
TopByte(a) == a[1] \div 256

\* x << 8 in U32
Shl8(a) == <<(a[1] % 256) * 256 + (a[2] \div 256), (a[2] % 256) * 256>>

\* (x << 8) + c in U32, c a byte
Shl8Add(a, c) == <<(a[1] % 256) * 256 + (a[2] \div 256), (a[2] % 256) * 256 + c>>

\* ((x1 ^ x2) & 0xff000000) == 0
SameTop(a, b) == TopByte(a) = TopByte(b)

\* ---------------------------------------------------------------- StateMap
NCtx == 65536

Limit == 90

Bit(i, k) == (i \div (2 ^ k)) % 2

\* t[i] as the constructor leaves it: n << 28 | 6
InitCell(i) ==
  LET n == Bit(i, 0) * 2 + Bit(i, 1) * 2 + Bit(i, 2) + Bit(i, 3) + Bit(i, 4)
           + Bit(i, 5) + Bit(i, 6) + Bit(i, 7) + 3
  IN  <<(n * 4096) % W16, 6>>

\* dt[i] as the constructor's loop sets it
DtValue(i) == 32768 \div (i + i + 3)

\* static int dt[256] = {0}
DtZero == [i \in 0 .. 255 |-> 0]

\* dt after the constructor's  if (dt[0]==0) for (...) dt[i]=32768/(i+i+3)
DtFilled(d) == IF d[0] = 0 THEN [i \in 0 .. 255 |-> DtValue(i)] ELSE d

\* The table t is held sparsely: cells never updated keep the constructor's value.
Cell(sm, cx) == IF cx \in DOMAIN sm.t THEN sm.t[cx] ELSE InitCell(cx)

NewStateMap == [cxt |-> 0, t |-> <<>>]

\* StateMap::p: the prediction, and the map with cxt set
SMPredict(cell) == Hi(cell)

SMP(sm, cx) == [sm EXCEPT !.cxt = cx]

\* update with the bit scaled by 1 << 16 instead of 1 << 18
UpdateProductShift16(cell, y, dtn) ==
  LET p == Hi(cell) * 4 + (Lo(cell) \div 16384)
  IN  (y * 65536 - p) * dtn

\* the int product ((y << 18) - p) * dt[n] of update, a signed value
UpdateProduct(cell, y, dtn) ==
  LET p == Hi(cell) * 4 + (Lo(cell) \div 16384)
  IN  (y * 262144 - p) * dtn

\* the product converted to unsigned and masked with 0xffffff00, as a U32
MaskedDelta(v) ==
  LET m == (v \div 256) * 256
  IN  <<(m \div W16) % W16, m % W16>>

\* the cell after  if (n < limit) ++t[cxt]
CellCounted(cell, limit) ==
  IF Lo(cell) % 256 < limit THEN Add32(cell, <<0, 1>>) ELSE cell

\* StateMap::update on one cell; dtn is the value read from dt[n]
CellUpdate(cell, y, limit, dtn) ==
  Add32(CellCounted(cell, limit), MaskedDelta(UpdateProduct(cell, y, dtn)))

CellCount(cell) == Lo(cell) % 256

\* d is the static table dt as the call finds it
SMUpdate(sm, y, limit, d) ==
  LET cell == Cell(sm, sm.cxt)
      new == CellUpdate(cell, y, limit, d[CellCount(cell)])
  IN  [sm EXCEPT !.t = (sm.cxt :> new) @@ sm.t]

\* --------------------------------------------------------------- Predictor
NewPredictor == [cxt |-> 0, sm |-> NewStateMap, state |-> [i \in 0 .. 255 |-> 102]]

PredKey(pr) == pr.cxt * 256 + pr.state[pr.cxt]

\* Predictor::p: the 16-bit prediction
PredP(pr) == SMPredict(Cell(pr.sm, PredKey(pr)))

\* update without the &=255 on the bit history
PredUpdateNoMask(pr, y, d) ==
  LET sm1 == SMUpdate(SMP(pr.sm, PredKey(pr)), y, Limit, d)
      c2  == pr.cxt + pr.cxt + y
  IN  [cxt |-> IF c2 >= 256 THEN 0 ELSE c2,
       sm |-> sm1,
       state |-> [pr.state EXCEPT ![pr.cxt] = pr.state[pr.cxt] + pr.state[pr.cxt] + y]]

\* Predictor::update, after the p() of the same call has set sm.cxt
PredUpdate(pr, y, d) ==
  LET sm1 == SMUpdate(SMP(pr.sm, PredKey(pr)), y, Limit, d)
      st  == (pr.state[pr.cxt] + pr.state[pr.cxt] + y) % 256
      c2  == pr.cxt + pr.cxt + y
  IN  [cxt |-> IF c2 >= 256 THEN 0 ELSE c2,
       sm |-> sm1,
       state |-> [pr.state EXCEPT ![pr.cxt] = st]]

\* ----------------------------------------------------------------- Encoder
X1Init == <<0, 0>>

X2Init == <<65535, 65535>>

\* the split without the low half's term
XmidHighOnly(x1, x2, p) == Add32(x1, Mul16(Hi(Sub32(x2, x1)), p))

\* xmid = x1 + ((x2-x1)>>16)*p + (((x2-x1)&0xffff)*p>>16), in U32
Xmid(x1, x2, p) ==
  LET w == Sub32(x2, x1)
  IN  Add32(Add32(x1, Mul16(Hi(w), p)), <<0, Hi(Mul16(Lo(w), p))>>)

\* the same sum with the carries kept: the first half exceeds 65535 exactly
\* when one of the two additions wraps
XmidWide(x1, x2, p) ==
  LET w == Sub32(x2, x1)
      s1 == AddWide(x1, Mul16(Hi(w), p))
  IN  AddWide(s1, <<0, Hi(Mul16(Lo(w), p))>>)

\* the interval after the bit y is coded
Narrow(e, y, d) ==
  LET xmid == Xmid(e.x1, e.x2, PredP(e.predictor))
  IN  [e EXCEPT !.x1 = IF y = 1 THEN e.x1 ELSE Add32(xmid, <<0, 1>>),
                !.x2 = IF y = 1 THEN xmid ELSE e.x2,
                !.predictor = PredUpdate(e.predictor, y, d)]

NoEncoder ==
  [mode |-> "NONE", predictor |-> NewPredictor, bufIdx |-> 0, bufSize |-> 0,
   x1 |-> X1Init, x2 |-> X2Init, x |-> <<0, 0>>]

\* Encoder(COMPRESS, buf, size)
NewCompressor(size) == [NoEncoder EXCEPT !.mode = "COMPRESS", !.bufSize = size]

\* the DECOMPRESS constructor's loop from iteration i on; inBuf holds the bufSize
\* bytes of the caller's buffer, g is what a read at index bufSize returns
RECURSIVE Preload(_, _, _, _)
Preload(e, inBuf, g, i) ==
  IF i = 4 THEN e
  ELSE IF e.bufIdx <= e.bufSize
       THEN LET c == IF e.bufIdx < Len(inBuf) THEN inBuf[e.bufIdx + 1] ELSE g
            IN  Preload([e EXCEPT !.bufIdx = @ + 1, !.x = Shl8Add(@, c % 256)],
                        inBuf, g, i + 1)
       ELSE Preload([e EXCEPT !.x = Shl8Add(@, 0)], inBuf, g, i + 1)

\* Encoder(DECOMPRESS, buf, size)
NewDecompressor(inBuf, size, g) ==
  Preload([NoEncoder EXCEPT !.mode = "DECOMPRESS", !.bufSize = size], inBuf, g, 0)

\* the loop "Shift equal MSB's out" of encode and flush: [e, out, ok]
RECURSIVE ShiftOut(_, _)
ShiftOut(e, out) ==
  IF SameTop(e.x1, e.x2)
  THEN IF e.bufIdx < e.bufSize
       THEN ShiftOut([e EXCEPT !.bufIdx = @ + 1, !.x1 = Shl8(@),
                               !.x2 = Shl8Add(@, 255)],
                     Append(out, TopByte(e.x2)))
       ELSE [e |-> e, out |-> out, ok |-> FALSE]
  ELSE [e |-> e, out |-> out, ok |-> TRUE]

\* Encoder::encode(y): [e, out, ok]
Encode(e, out, y, d) == ShiftOut(Narrow(e, y, d), out)

\* flush writing its last byte without the test bufIdx < bufSize
FlushUnchecked(e, out) ==
  LET r == ShiftOut(e, out)
  IN  IF ~r.ok THEN r
      ELSE [e |-> [r.e EXCEPT !.bufIdx = @ + 1],
            out |-> Append(r.out, TopByte(r.e.x2)), ok |-> TRUE]

\* Encoder::flush(): [e, out, ok]
Flush(e, out) ==
  IF e.mode = "COMPRESS"
  THEN LET r == ShiftOut(e, out)
       IN  IF ~r.ok THEN r
           ELSE IF r.e.bufIdx < r.e.bufSize
                THEN [e |-> [r.e EXCEPT !.bufIdx = @ + 1],
                      out |-> Append(r.out, TopByte(r.e.x2)), ok |-> TRUE]
                ELSE [r EXCEPT !.ok = FALSE]
  ELSE [e |-> e, out |-> out, ok |-> TRUE]

\* the loop "Shift equal MSB's out" of decode: [e, n], n the iterations run
RECURSIVE ShiftIn(_, _, _)
ShiftIn(e, inBuf, n) ==
  IF SameTop(e.x1, e.x2)
  THEN LET has == e.bufIdx < e.bufSize
           c == IF has THEN inBuf[e.bufIdx + 1] ELSE 0
       IN  ShiftIn([e EXCEPT !.x1 = Shl8(@), !.x2 = Shl8Add(@, 255),
                             !.bufIdx = IF has THEN @ + 1 ELSE @,
                             !.x = Shl8Add(@, c)],
                   inBuf, n + 1)
  ELSE [e |-> e, n |-> n]

\* the bit decode() is about to return
DecodedBit(e) ==
  IF Le32(e.x, Xmid(e.x1, e.x2, PredP(e.predictor))) THEN 1 ELSE 0

\* Encoder::decode(): [e, y, n]
Decode(e, inBuf, d) ==
  LET y == DecodedBit(e)
      r == ShiftIn(Narrow(e, y, d), inBuf, 0)
  IN  [e |-> r.e, y |-> y, n |-> r.n]

\* ------------------------------------------- the calls as functions of input
\* the number of bits compress encodes for s: nine per byte, and the EOF bit
StreamBits(s) == 9 * Len(s) + 1

\* the k-th bit (from 0) compress encodes for s
StreamBit(s, k) ==
  IF k \div 9 >= Len(s) THEN 0
  ELSE IF k % 9 = 0 THEN 1
  ELSE Bit(s[(k \div 9) + 1], 8 - (k % 9))

\* compress's encode calls k .. n-1 on s, stopping at the first that fails
RECURSIVE EncRun(_, _, _, _, _)
EncRun(r, s, k, n, d) ==
  IF k = n \/ ~r.ok THEN r
  ELSE EncRun(Encode(r.e, r.out, StreamBit(s, k), d), s, k + 1, n, d)

\* the Encoder of compress(s) before its k-th encode call (from 0)
EncoderBefore(s, k, cap, d) ==
  EncRun([e |-> NewCompressor(cap), out |-> <<>>, ok |-> TRUE], s, 0, k, d)

\* fpaq0f2_compress(s, |s|, out, cap) with valid pointers: [ret, out]
CompressRun(s, cap, d) ==
  LET r == EncoderBefore(s, StreamBits(s), cap, d)
      f == IF r.ok THEN Flush(r.e, r.out) ELSE r
  IN  [ret |-> IF f.ok THEN f.e.bufIdx ELSE cap + 1, out |-> f.out]

\* a capacity no output of compress(s) exceeds: encode and flush write at most
\* four bytes a call
AmpleCap(s) == 4 * StreamBits(s) + 5

\* ------------------------------------------------------------ the two calls
VARIABLES
  op,       \* the function called: "compress" or "decompress"
  inNull,   \* in == NULL
  inBuf,    \* the bytes at in (none when in is NULL)
  len,      \* the argument len
  outNull,  \* out == NULL
  bufsize,  \* the argument bufsize
  pc,       \* where the call stands
  e,        \* the call's Encoder (mode "NONE" before it is constructed)
  idx,      \* the local idx of either function
  i,        \* compress: the inner loop's i; decompress: the accumulator c
  outBuf,   \* the bytes written to out so far, in index order
  ret,      \* the value returned (NoRet until the call returns)
  dt,       \* the static table StateMap::dt
  rt,       \* this decompress call is given the output of a compress call
  src,      \* the input of that compress call
  thr,      \* two-thread runs: each thread's call
  cell,     \* single-cell runs: the StateMap cell
  steps,    \* single-cell runs: updates applied
  last      \* single-cell runs: the bit of the last update

vars ==
  <<op, inNull, inBuf, len, outNull, bufsize, pc, e, idx, i, outBuf, ret, dt, rt,
    src, thr, cell, steps, last>>

callVars == <<op, inNull, inBuf, len, outNull, bufsize, rt, src>>

otherVars == <<thr, cell, steps, last>>

\* (size_t)-1
SizeMax == -1

NoRet == -2

\* values a read one past the end of the caller's buffer is given
OobBytes == {0, 128, 255}

\* bytes the multi-byte inputs are made of
Alphabet == {0, 65, 255}

Seqs(S, lo, hi) == UNION {[1 .. n -> S] : n \in lo .. hi}

\* inputs of compress: the empty input, every single byte, short sequences
Inputs == Seqs(Byte, 0, 1) \cup Seqs(Alphabet, 2, MaxLen)

\* inputs of decompress given directly (valid, corrupt or truncated streams)
DecInputs == Seqs({0, 110, 255}, 0, MaxDecLen)

\* the validation without the test of out
BadArgsInOnly(inN, l, outN, b) == inN /\ 0 < l

\* if (NULL == in && 0 < len) ...  if (NULL == out && 0 < bufsize) ...
BadArgs(inN, l, outN, b) == (inN /\ 0 < l) \/ (outN /\ 0 < b)

Init ==
  /\ op \in {"compress", "decompress"}
  /\ \/ /\ inNull = FALSE
        /\ inBuf \in (IF op = "compress" THEN Inputs ELSE DecInputs)
        /\ len = Len(inBuf)
     \/ /\ inNull = TRUE
        /\ inBuf = <<>>
        /\ len \in 0 .. 1
  /\ \/ /\ outNull = FALSE
        /\ bufsize \in 0 .. (IF op = "compress" THEN MaxCap ELSE MaxDecCap)
     \/ /\ outNull = TRUE
        /\ bufsize \in 0 .. 1
  /\ pc = "call"
  /\ e = NoEncoder
  /\ idx = 0
  /\ i = 0
  /\ outBuf = <<>>
  /\ ret = NoRet
  /\ dt = DtZero
  /\ rt = FALSE
  /\ src = <<>>
  /\ thr = <<>>
  /\ cell = <<0, 0>>
  /\ steps = 0
  /\ last = 0

\* return v
Return(v) == pc' = "done" /\ ret' = v

\* the result r of an encode or flush is taken over
Took(r) == e' = r.e /\ outBuf' = r.out

\* fpaq0f2_compress up to the loop's first test
CompressEnter ==
  /\ pc = "call" /\ op = "compress"
  /\ IF BadArgs(inNull, len, outNull, bufsize)
     THEN /\ Return(SizeMax)
          /\ UNCHANGED <<e, dt>>
     ELSE /\ e' = NewCompressor(bufsize)
          /\ dt' = DtFilled(dt)
          /\ pc' = IF 0 < len THEN "c_frame" ELSE "c_eof"
          /\ UNCHANGED ret
  /\ UNCHANGED <<idx, i, outBuf, callVars, otherVars>>

\* if (!e.encode(1)) return bufsize + 1;
EncodeFrame ==
  /\ pc = "c_frame"
  /\ LET r == Encode(e, outBuf, 1, dt)
     IN  /\ Took(r)
         /\ IF r.ok THEN pc' = "c_data" /\ i' = 7 /\ UNCHANGED ret
                    ELSE Return(bufsize + 1) /\ UNCHANGED i
  /\ UNCHANGED <<idx, dt, callVars, otherVars>>

\* if (!e.encode((c>>i)&1)) return bufsize + 1;  and the loops' steps
EncodeData ==
  /\ pc = "c_data"
  /\ LET r == Encode(e, outBuf, Bit(inBuf[idx + 1], i), dt)
     IN  /\ Took(r)
         /\ IF ~r.ok THEN Return(bufsize + 1) /\ UNCHANGED <<i, idx>>
            ELSE IF i > 0 THEN i' = i - 1 /\ UNCHANGED <<pc, idx, ret>>
            ELSE /\ idx' = idx + 1
                 /\ pc' = IF idx + 1 < len THEN "c_frame" ELSE "c_eof"
                 /\ UNCHANGED <<i, ret>>
  /\ UNCHANGED <<dt, callVars, otherVars>>

\* if (!e.encode(0)) return bufsize + 1; // EOF code
EncodeEof ==
  /\ pc = "c_eof"
  /\ LET r == Encode(e, outBuf, 0, dt)
     IN  /\ Took(r)
         /\ IF r.ok THEN pc' = "c_flush" /\ UNCHANGED ret
                    ELSE Return(bufsize + 1)
  /\ UNCHANGED <<idx, i, dt, callVars, otherVars>>

\* if (!e.flush()) return bufsize + 1;  return e.getBufIdx();
FlushReturn ==
  /\ pc = "c_flush"
  /\ LET r == Flush(e, outBuf)
     IN  /\ Took(r)
         /\ Return(IF r.ok THEN r.e.bufIdx ELSE bufsize + 1)
  /\ UNCHANGED <<idx, i, dt, callVars, otherVars>>

\* fpaq0f2_decompress up to the loop's first decode.  The constructor reads
\* in[len] when len <= 3: through a null pointer the call dies, otherwise the
\* read is given some byte.
DecompressEnter ==
  /\ pc = "call" /\ op = "decompress"
  /\ \/ /\ BadArgs(inNull, len, outNull, bufsize)
        /\ Return(SizeMax)
        /\ UNCHANGED <<e, dt>>
     \/ /\ ~BadArgs(inNull, len, outNull, bufsize)
        /\ inNull
        /\ pc' = "crashed"
        /\ dt' = DtFilled(dt)
        /\ UNCHANGED <<e, ret>>
     \/ /\ ~BadArgs(inNull, len, outNull, bufsize)
        /\ ~inNull
        /\ \E g \in OobBytes : e' = NewDecompressor(inBuf, len, g)
        /\ dt' = DtFilled(dt)
        /\ pc' = "d_frame"
        /\ UNCHANGED ret
  /\ UNCHANGED <<idx, i, outBuf, callVars, otherVars>>

\* while (e.decode()) { int c=1; ...  return idx;
DecodeFrame ==
  /\ pc = "d_frame"
  /\ LET r == Decode(e, inBuf, dt)
     IN  /\ e' = r.e
         /\ IF r.y = 1 THEN pc' = "d_data" /\ i' = 1 /\ UNCHANGED ret
                       ELSE Return(idx) /\ UNCHANGED i
  /\ UNCHANGED <<idx, outBuf, dt, callVars, otherVars>>

\* while (c<256) c+=c+e.decode();  and, after the eighth bit, the store
DecodeData ==
  /\ pc = "d_data"
  /\ LET r == Decode(e, inBuf, dt)
         c == i + i + r.y
     IN  /\ e' = r.e
         /\ i' = c
         /\ IF c < 256 THEN UNCHANGED <<pc, idx, outBuf, ret>>
            ELSE IF idx < bufsize
                 THEN /\ outBuf' = Append(outBuf, c - 256)
                      /\ idx' = idx + 1
                      /\ pc' = "d_frame"
                      /\ UNCHANGED ret
                 ELSE Return(bufsize + 1) /\ UNCHANGED <<idx, outBuf>>
  /\ UNCHANGED <<dt, callVars, otherVars>>

\* A caller hands the n bytes compress returned to decompress, with room for
\* the original input.
Feed ==
  /\ pc = "done" /\ op = "compress" /\ ret \in 0 .. bufsize
  /\ op' = "decompress"
  /\ rt' = TRUE
  /\ src' = inBuf
  /\ inBuf' = outBuf
  /\ len' = ret
  /\ inNull' = FALSE
  /\ outNull' = FALSE
  /\ bufsize' \in Len(inBuf) .. Len(inBuf) + 1
  /\ pc' = "call"
  /\ e' = NoEncoder
  /\ idx' = 0
  /\ i' = 0
  /\ outBuf' = <<>>
  /\ ret' = NoRet
  /\ UNCHANGED <<dt, otherVars>>

Next ==
  \/ CompressEnter
  \/ EncodeFrame
  \/ EncodeData
  \/ EncodeEof
  \/ FlushReturn
  \/ DecompressEnter
  \/ DecodeFrame
  \/ DecodeData
  \/ Feed

Spec == Init /\ [][Next]_vars

\* -------------------------------------------------------------- properties
\* an encode or decode call is about to start
AtCoderCall == pc \in {"c_frame", "c_data", "c_eof", "d_frame", "d_data"}

\* the number of bits of c: the decode calls of the current byte so far
RECURSIVE BitLen(_)
BitLen(c) == IF c = 0 THEN 0 ELSE 1 + BitLen(c \div 2)

\* the decode calls made so far by decompress
DecodeCalls == 9 * idx + (IF pc = "d_data" THEN BitLen(i) ELSE 0)

\* C(s): what compress(s) returns when the capacity is ample
CompressedSize(s) == CompressRun(s, AmpleCap(s), dt).ret

\* C1: decompress, given exactly the n bytes compress(s) returned and room for
\* |s| bytes or more, returns |s| and writes exactly s.
C1_RoundTrip ==
  (rt /\ op = "decompress" /\ pc \in {"done", "crashed"})
    => (pc = "done" /\ ret = Len(src) /\ outBuf = src)

C3_NoReadPastLen ==
  /\ pc # "crashed"
  /\ e.mode = "DECOMPRESS"
       => /\ e.bufIdx <= e.bufSize
          /\ e.bufSize = 0 => e.x = <<0, 0>>

\* C5: both functions return SIZE_MAX exactly when in is NULL with len > 0 or
\* out is NULL with bufsize > 0, and such a call constructs no coder and
\* touches no buffer.
C5_ArgValidation ==
  LET bad == (inNull /\ len > 0) \/ (outNull /\ bufsize > 0)
  IN  /\ pc = "done" => (ret = SizeMax <=> bad)
      /\ bad => /\ pc \in {"call", "done"}
                /\ e = NoEncoder
                /\ outBuf = <<>>
                /\ idx = 0
                /\ dt = DtZero

\* C5 witness: a call with a NULL out and a positive bufsize has returned
C5_Witness == pc = "done" /\ ret = SizeMax /\ outNull /\ bufsize > 0 /\ ~inNull

\* C6: decompress always returns: it is always at a step it can take or has
\* returned, a decode call's renormalization loop runs at most 4 times, and a byte takes
\* one framing decode and eight data decodes.
C6_DecompressReturns ==
  op = "decompress"
    => /\ pc \in {"call", "d_frame", "d_data", "done"}
       /\ pc \in {"d_frame", "d_data"} => Decode(e, inBuf, dt).n <= 4
       /\ pc = "d_data" => i \in 1 .. 255
       /\ idx <= bufsize

\* floor(w * p / 65536) for a U32 w, by long multiplication on the bytes of w
FloorMul(w, p) ==
  LET c0 == ((Lo(w) % 256) * p) \div 256
      v1 == (Lo(w) \div 256) * p + c0
      v2 == (Hi(w) % 256) * p + (v1 \div 256)
      v3 == (Hi(w) \div 256) * p + (v2 \div 256)
  IN  <<v3 \div 256, (v3 % 256) * 256 + (v2 % 256)>>

\* predictor outputs the split is checked for in every state, besides the
\* one the predictor gives there
PSample == {0, 1, 255, 256, 257, 28672, 32767, 32768, 65280, 65534, 65535}

SplitOk(x1, x2, p) ==
  /\ Hi(XmidWide(x1, x2, p)) < W16
  /\ Hi(AddWide(x1, FloorMul(Sub32(x2, x1), p))) < W16
  /\ Xmid(x1, x2, p) = Add32(x1, FloorMul(Sub32(x2, x1), p))
  /\ Le32(x1, Xmid(x1, x2, p))
  /\ Lt32(Xmid(x1, x2, p), x2)

\* C7: x1 <= x2 always; at the start of every encode and decode call the top
\* bytes of x1 and x2 differ, x1 < x2, and the split is x1 + floor((x2-x1)*p/65536)
\* without wrap-around, with x1 <= xmid < x2.
C7_Interval ==
  /\ Le32(e.x1, e.x2)
  /\ AtCoderCall
       => /\ ~SameTop(e.x1, e.x2)
          /\ Lt32(e.x1, e.x2)
          /\ PredP(e.predictor) \in 0 .. 65535
          /\ \A p \in PSample \cup {PredP(e.predictor)} : SplitOk(e.x1, e.x2, p)

\* C7 witness: a coder call is about to start on an interval both of whose
\* ends have moved and bytes have been shifted out
C7_Witness ==
  /\ pc = "c_data" /\ e.bufIdx > 0
  /\ e.x1 # X1Init /\ e.x2 # X2Init /\ Hi(e.x1) > 0

\* C9: cxt and every state[i] are in 0..255, so the key is in [0, 65536); cxt
\* is 0 exactly when the next bit is a framing or EOF bit, 1 right after a
\* framing 1, and the partial byte with a leading 1 in between.
C9_Context ==
  /\ e.predictor.cxt \in 0 .. 255
  /\ \A j \in 0 .. 255 : e.predictor.state[j] \in 0 .. 255
  /\ PredKey(e.predictor) \in 0 .. NCtx - 1
  /\ \A k \in DOMAIN e.predictor.sm.t : k \in 0 .. NCtx - 1
  /\ pc \in {"c_frame", "c_eof", "c_flush", "d_frame"} => e.predictor.cxt = 0
  /\ pc = "c_data"
       => /\ e.predictor.cxt = 2 ^ (7 - i) + (inBuf[idx + 1] \div 2 ^ (i + 1))
          /\ e.predictor.cxt # 0
          /\ i = 7 => e.predictor.cxt = 1
  /\ pc = "d_data" => e.predictor.cxt = i /\ i \in 1 .. 255

\* C9 witness: the second byte's framing bit is next, cxt back at 0 after the
\* eighth data bit
C9_Witness == pc = "c_frame" /\ idx = 1 /\ e.predictor.cxt = 0 /\ e.predictor.state[128] # 102

\* C10: on the output of a successful compress(s), before the k-th decode call
\* the decoder's x1, x2 and predictor equal the encoder's before its k-th
\* encode call, x1 <= x <= x2, and the k-th decoded bit is the k-th encoded bit.
C10_Lockstep ==
  (rt /\ op = "decompress" /\ pc \in {"d_frame", "d_data", "crashed"})
    => /\ pc # "crashed"
       /\ DecodeCalls < StreamBits(src)
       /\ LET enc == EncoderBefore(src, DecodeCalls, AmpleCap(src), dt).e
          IN  /\ e.x1 = enc.x1
              /\ e.x2 = enc.x2
              /\ e.predictor = enc.predictor
       /\ Le32(e.x1, e.x)
       /\ Le32(e.x, e.x2)
       /\ DecodedBit(e) = StreamBit(src, DecodeCalls)

\* --------------------------------------------------- one StateMap cell alone
\* contexts whose cells start at each of the values n << 28 | 6, n = 3 .. 13
CellContexts == {0, 4, 1, 5, 3, 7, 15, 31, 63, 127, 255, 252}

\* everything the single-cell and the two-thread runs leave alone
CallIdle ==
  /\ op = "compress" /\ inNull = FALSE /\ inBuf = <<>> /\ len = 0
  /\ outNull = FALSE /\ bufsize = 0 /\ pc = "idle" /\ e = NoEncoder
  /\ i = 0 /\ outBuf = <<>> /\ ret = NoRet /\ rt = FALSE /\ src = <<>>

\* the cell t[idx] of a StateMap just constructed
InitSM ==
  /\ CallIdle
  /\ idx \in CellContexts
  /\ cell = InitCell(idx)
  /\ steps = 0
  /\ last = 0
  /\ dt = DtFilled(DtZero)
  /\ thr = <<>>

\* sm.update(y, 90) on the cell: any bits for the first MaxPrefix updates, then
\* a run of one bit, MaxUpdates updates at most
UpdateCell(y) ==
  /\ steps < MaxUpdates
  /\ steps < MaxPrefix \/ last = y
  /\ cell' = CellUpdate(cell, y, Limit, dt[CellCount(cell)])
  /\ steps' = steps + 1
  /\ last' = y
  /\ UNCHANGED <<op, inNull, inBuf, len, outNull, bufsize, pc, e, idx, i, outBuf,
                 ret, dt, rt, src, thr>>

UpdateOne == UpdateCell(1)

UpdateZero == UpdateCell(0)

NextSM == UpdateOne \/ UpdateZero

SpecSM == InitSM /\ [][NextSM]_vars

\* the cell after update(y, 90)
Updated(y) == CellUpdate(cell, y, Limit, dt[CellCount(cell)])

\* the first half of  t + delta  taken as a sum of integers, delta being the
\* masked product as a signed value: outside 0 .. 65535 exactly when the
\* 32-bit addition carries past 2^32 or borrows below 0
SignedSumHi(y) ==
  LET m == (UpdateProduct(cell, y, dt[CellCount(cell)]) \div 256) * 256
      c == CellCounted(cell, Limit)
  IN  Hi(c) + (m \div W16) + ((Lo(c) + (m % W16)) \div W16)

\* the 24 prediction bits of a cell
Pred24(c) == Hi(c) * 256 + (Lo(c) \div 256)

PopCount(j) ==
  Bit(j, 0) + Bit(j, 1) + Bit(j, 2) + Bit(j, 3) + Bit(j, 4) + Bit(j, 5)
  + Bit(j, 6) + Bit(j, 7)

\* the cell's start is the value the claim gives: (popcount(i & 0xFF) + 3) << 28 | 6
PopSeeded == InitCell(idx) = <<((PopCount(idx) + 3) * 4096) % W16, 6>>

Monotone ==
  /\ SMPredict(Updated(1)) >= SMPredict(cell)
  /\ SMPredict(Updated(0)) <= SMPredict(cell)
  /\ SignedSumHi(1) \in 0 .. W16 - 1
  /\ SignedSumHi(0) \in 0 .. W16 - 1
  /\ CellCount(cell) \in 6 .. Limit
  /\ \A y \in 0 .. 1 :
       CellCount(Updated(y)) = IF CellCount(cell) < Limit THEN CellCount(cell) + 1
                               ELSE CellCount(cell)

Threads == {1, 2}

\* the input of the two compress calls: RaceLen bytes 'A'
RaceInputs == {[j \in 1 .. RaceLen |-> 65]}

\* the table dt with every entry set
DtFull == DtFilled(DtZero)

InitRace ==
  /\ CallIdle
  /\ idx = 0 /\ cell = <<0, 0>> /\ steps = 0 /\ last = 0
  /\ dt = DtZero
  /\ thr \in [Threads -> {[pc |-> "ctor_test", s |-> s, n |-> 0,
                           e |-> NoEncoder, out |-> <<>>, ret |-> NoRet] :
                          s \in RaceInputs}]

raceIdle ==
  <<op, inNull, inBuf, len, outNull, bufsize, pc, e, idx, i, outBuf, ret, rt,
    src, cell, steps, last>>

\* StateMap::StateMap in thread th:  if (dt[0]==0)
CtorTest(th) ==
  /\ thr[th].pc = "ctor_test"
  /\ thr' = [thr EXCEPT ![th].pc = IF dt[0] = 0 THEN "ctor_fill" ELSE "encode",
                        ![th].e = NewCompressor(AmpleCap(thr[th].s))]
  /\ UNCHANGED dt
  /\ UNCHANGED raceIdle

\* one iteration of  for (int i=0; i<256; ++i) dt[i]=32768/(i+i+3);
CtorFill(th) ==
  /\ thr[th].pc = "ctor_fill"
  /\ dt' = [dt EXCEPT ![thr[th].n] = DtValue(thr[th].n)]
  /\ thr' = [thr EXCEPT ![th].n = IF thr[th].n = 255 THEN 0 ELSE @ + 1,
                        ![th].pc = IF thr[th].n = 255 THEN "encode" ELSE @]
  /\ UNCHANGED raceIdle

\* the next encode call of compress in thread th, reading dt as it is now
ThreadEncode(th) ==
  /\ thr[th].pc = "encode"
  /\ LET t == thr[th]
         r == Encode(t.e, t.out, StreamBit(t.s, t.n), dt)
     IN  thr' = [thr EXCEPT ![th] =
                   [t EXCEPT !.e = r.e, !.out = r.out,
                             !.n = IF r.ok THEN t.n + 1 ELSE t.n,
                             !.pc = IF ~r.ok THEN "done"
                                    ELSE IF t.n + 1 = StreamBits(t.s) THEN "flush"
                                    ELSE "encode",
                             !.ret = IF r.ok THEN t.ret ELSE t.e.bufSize + 1]]
  /\ UNCHANGED dt
  /\ UNCHANGED raceIdle

\* flush and return in thread th
ThreadFlush(th) ==
  /\ thr[th].pc = "flush"
  /\ LET t == thr[th]
         r == Flush(t.e, t.out)
     IN  thr' = [thr EXCEPT ![th] =
                   [t EXCEPT !.e = r.e, !.out = r.out, !.pc = "done",
                             !.ret = IF r.ok THEN r.e.bufIdx ELSE t.e.bufSize + 1]]
  /\ UNCHANGED dt
  /\ UNCHANGED raceIdle

NextRace ==
  \E th \in Threads :
    \/ CtorTest(th)
    \/ CtorFill(th)
    \/ ThreadEncode(th)
    \/ ThreadFlush(th)

SpecRace == InitRace /\ [][NextRace]_vars

\* C4: each of two compress calls on two threads behaves, under every
\* interleaving, as the same call run alone: every update reads a dt[n] that
\* has been set, its coder state before each encode is the one of the call run
\* alone, and it returns the same value and writes the same bytes.
C4_ThreadSafe ==
  \A th \in Threads :
    LET t == thr[th]
    IN  /\ t.pc \in {"encode", "flush"}
             => t.e = EncoderBefore(t.s, t.n, AmpleCap(t.s), DtFull).e
        /\ t.pc = "done"
             => /\ t.ret = CompressRun(t.s, AmpleCap(t.s), DtFull).ret
                /\ t.out = CompressRun(t.s, AmpleCap(t.s), DtFull).out

====
